---------------------------- MODULE Spec2Model ----------------------------
(***************************************************************************)
(* Model of include/struct.h: the per-node-type pool allocator             *)
(* (SNodeAllocator), its reclamation sweep (recycle_all_gpu / clear), the  *)
(* registry (Managers / SNodeManager) and the container variants pointer,  *)
(* hashed and dynamic.                                                     *)
(*                                                                         *)
(* A pointer into a data_pool is modelled by the slot index it addresses   *)
(* (data_pool + id ~ id).  NULL is the null pointer, RAW the indeterminate *)
(* content of storage that was never written, ABSENT a key that is not in  *)
(* a hashed container's map.                                               *)
(***************************************************************************)
EXTENDS Integers, Sequences, FiniteSets, TLC

\* ------------------------------------------------------------------ bounds
\* number of concurrently running accelerator tasks (or host threads)
NTasks == 3
\* capacity of one pool: (1LL << 33) / sizeof(data_type), scaled down
pool_size == 5
\* most sweep kernels the host launches
MaxLaunches == 2
\* most allocate_node calls the host makes
MaxCalls == 4
\* capacity of a dynamic container
max_n == 3
\* number of node types the registry has a slot for, scaled down
max_num_snodes == 3

\* length of a coordinate tuple (PhysicalIndexGroup), scaled down
max_num_indices == 2
\* sizeof(data_type) / 4: the 32-bit words of one data slot, scaled down
WordsPerNode == 2
\* SNodeID<T>::value of the pointer and of the hashed node type
PointerT == 0
HashedT == 1
\* content of a word of a freshly constructed data_type()
INIT == 7

NULL == 0 - 1
RAW == 0 - 2
ABSENT == 0 - 3

\* most slots the host makes resident before it reclaims or resets: as many
\* as recycle_all_gpu zero-fills without leaving the pool's storage (block b
\* writes word b * (WordsPerNode + 1) of data_pool)
MaxResident ==
  ((pool_size * WordsPerNode - 1) \div (WordsPerNode + 1)) + 1

Tasks == 1 .. NTasks
Slots == 0 .. (pool_size - 1)
Words == 0 .. (WordsPerNode - 1)
TypeIds == 0 .. (max_num_snodes - 1)
\* the pointer-container instances and the flattened indices in use
PtrInsts == {1, 2}
Keys == {0, 1}
CoordValues == {0, 1}
PhysicalIndexGroup == [1 .. max_num_indices -> CoordValues]
\* the coordinate tuples callers pass: the first coordinate differs from the
\* others, in both orders
IndexInputs ==
  {ix \in PhysicalIndexGroup :
     \A i \in 2 .. max_num_indices : ix[i] = 1 - ix[1]}
NoIndex == [i \in 1 .. max_num_indices |-> RAW]

VARIABLES
  \* alloc[a]: the SNodeAllocator objects created so far
  alloc,
  \* set when a write landed outside a pool's storage
  overrun,
  \* Managers::managers and, per SNodeManager created, its allocator
  managers, manager_allocator,
  \* pointer<>: data and lock of each instance
  pdata, lock,
  \* hashed<>: the map (ABSENT where there is no entry) and the mutex owner;
  \* activated_ref[i] is history: what allocate_node returned to the host's
  \* activate of flattened index i (NULL before any)
  hdata, mut, activated_ref,
  \* dynamic<>: n and data
  dn, ddata,
  \* history: the highest index look_up or append has touched, plus one
  dtouched,
  \* per task: position, arguments and locals of the running call
  pc, this, self, arg, index, id, ret,
  \* recycle_all_gpu: position of thread (b, t), the append position thread
  \* (b, 0) drew, the number of blocks launched; history: the number of
  \* launches and of the host's allocate_node calls
  spc, spos, grid, launches, calls,
  \* the host thread's last completed call
  hostop

regVars == <<managers, manager_allocator>>
ptrVars == <<pdata, lock>>
hashVars == <<hdata, mut, activated_ref>>
dynVars == <<dn, ddata, dtouched>>
taskVars == <<pc, this, self, arg, index, id, ret>>
sweepVars == <<spc, spos, grid, launches, calls>>
vars == <<alloc, overrun, regVars, ptrVars, hashVars, dynVars, taskVars,
          sweepVars, hostop>>

\* ------------------------------------------------------------ SNodeMeta
RawMeta == [indices |-> NoIndex, ptr |-> RAW, active |-> RAW]
RawData == [w \in Words |-> RAW]

\* data_pool + id
SlotAddr(k) == k

\* ------------------------------------------------------- SNodeAllocator()
NewAllocator ==
  [resident_pool |-> [k \in Slots |-> RawMeta],
   recycle_pool |-> [k \in Slots |-> RawMeta],
   data_pool |-> [k \in Slots |-> RawData],
   resident_tail |-> 0,
   recycle_tail |-> 0]

\* ---------------------------------------------------------- get_stat()
get_stat(T) ==
  [snode_id |-> T, pool_size |-> pool_size,
   num_recycled_blocks |-> alloc[T].recycle_tail,
   num_resident_blocks |-> alloc[T].resident_tail]

\* --------------------------------------------------------- reset_meta()
reset_meta_data_zeroed(A) ==
  [A EXCEPT !.resident_tail = 0, !.recycle_tail = 0,
            !.data_pool = [k \in Slots |-> [w \in Words |-> 0]]]

reset_meta(A) == [A EXCEPT !.resident_tail = 0, !.recycle_tail = 0]

\* ------------------------------------------------------ allocate_node
\* a claim that also takes the last entry off the recycle list
ClaimSlotFromRecycle(A) ==
  [A EXCEPT !.resident_tail = @ + 1,
            !.recycle_tail = IF @ > 0 THEN @ - 1 ELSE @]

\* a claim that reads the counter and does not advance it
ClaimSlotNoAdd(A) == A

\* atomic_add(&resident_tail, 1UL): the counter after the add; the value
\* returned to the caller is the counter before it
ClaimSlot(A) == [A EXCEPT !.resident_tail = @ + 1]

\* meta.active = true
WriteActive(A, k) ==
  IF k \in Slots THEN [A EXCEPT !.resident_pool[k].active = 1] ELSE A

\* meta.ptr = data_pool + id
WritePtr(A, k) ==
  IF k \in Slots THEN [A EXCEPT !.resident_pool[k].ptr = SlotAddr(k)] ELSE A

\* a copy loop that reads index[0] for every component
WriteIndicesFirstOnly(A, k, ix) ==
  IF k \in Slots
    THEN [A EXCEPT !.resident_pool[k].indices =
                     [i \in 1 .. max_num_indices |-> ix[1]]]
    ELSE A

\* for (i...) meta.indices[i] = index[i]
WriteIndices(A, k, ix) ==
  IF k \in Slots
    THEN [A EXCEPT !.resident_pool[k].indices =
                     [i \in 1 .. max_num_indices |-> ix[i]]]
    ELSE A

\* new (data_pool + id) data_type()
Construct(A, k) ==
  IF k \in Slots
    THEN [A EXCEPT !.data_pool[k] = [w \in Words |-> INIT]]
    ELSE A

\* T::has_null: true for pointer and hashed, false for the other variants;
\* SNodeAllocator() allocates data_pool only if it is true
has_null(T) == T \in {PointerT, HashedT}

\* TC_ASSERT(this != nullptr); TC_ASSERT(data_pool != nullptr);
\* TC_ASSERT(resident_pool != nullptr): the allocator is a constructed one
\* and its constructor allocated a data pool
AllocatorAsserts(a) == a \in DOMAIN alloc /\ has_null(a)

\* allocate_node run to completion by one caller with nothing interleaved
AllocateNodeWhole(A, ix) ==
  Construct(
    WriteIndices(WritePtr(WriteActive(ClaimSlot(A), A.resident_tail),
                          A.resident_tail),
                 A.resident_tail, ix),
    A.resident_tail)

\* the pointer that call returns
AllocateNodeResult(A) == SlotAddr(A.resident_tail)

allocate_claim(t) ==
  /\ pc[t] = "alloc_claim"
  /\ AllocatorAsserts(this[t])
  /\ id' = [id EXCEPT ![t] = alloc[this[t]].resident_tail]
  /\ alloc' = [alloc EXCEPT ![this[t]] = ClaimSlot(@)]
  /\ pc' = [pc EXCEPT ![t] = "alloc_active"]
  /\ UNCHANGED <<overrun, regVars, ptrVars, hashVars, dynVars, this, self,
                 arg, index, ret, sweepVars, hostop>>

allocate_active(t) ==
  /\ pc[t] = "alloc_active"
  /\ alloc' = [alloc EXCEPT ![this[t]] = WriteActive(@, id[t])]
  /\ overrun' = (overrun \/ id[t] \notin Slots)
  /\ pc' = [pc EXCEPT ![t] = "alloc_ptr"]
  /\ UNCHANGED <<regVars, ptrVars, hashVars, dynVars, this, self, arg, index,
                 id, ret, sweepVars, hostop>>

allocate_ptr(t) ==
  /\ pc[t] = "alloc_ptr"
  /\ alloc' = [alloc EXCEPT ![this[t]] = WritePtr(@, id[t])]
  /\ pc' = [pc EXCEPT ![t] = "alloc_indices"]
  /\ UNCHANGED <<overrun, regVars, ptrVars, hashVars, dynVars, this, self,
                 arg, index, id, ret, sweepVars, hostop>>

allocate_indices(t) ==
  /\ pc[t] = "alloc_indices"
  /\ alloc' = [alloc EXCEPT ![this[t]] = WriteIndices(@, id[t], index[t])]
  /\ pc' = [pc EXCEPT ![t] = "alloc_construct"]
  /\ UNCHANGED <<overrun, regVars, ptrVars, hashVars, dynVars, this, self,
                 arg, index, id, ret, sweepVars, hostop>>

\* the placement new and the return; after is where the caller continues
allocate_construct(t, after) ==
  /\ pc[t] = "alloc_construct"
  /\ alloc' = [alloc EXCEPT ![this[t]] = Construct(@, id[t])]
  /\ ret' = [ret EXCEPT ![t] = SlotAddr(id[t])]
  /\ pc' = [pc EXCEPT ![t] = after]
  /\ UNCHANGED <<overrun, regVars, ptrVars, hashVars, dynVars, this, self,
                 arg, index, id, sweepVars, hostop>>

\* ------------------------------------------------------------- registry
\* Managers::get_manager<T>() / Managers::get<T>(): the slot of T
get_first_slot(T) == managers[0]

get(T) == managers[T]

IsManager(h) == h \in DOMAIN manager_allocator

\* SNodeManager::get_allocator()
get_allocator(h) == manager_allocator[h]

\* ------------------------------------------------------- initial values
PoolInit ==
  /\ alloc = [a \in {PointerT, HashedT} |-> NewAllocator]
  /\ overrun = FALSE

\* the host has stored the managers of the pointer and of the hashed node
\* type in their slots; the other slots were never written
RegistryReady ==
  /\ managers = [T \in TypeIds |-> IF T \in {PointerT, HashedT} THEN T ELSE RAW]
  /\ manager_allocator = [h \in {PointerT, HashedT} |-> h]

ContainerInit ==
  /\ pdata = [c \in PtrInsts |-> NULL]
  /\ lock = [c \in PtrInsts |-> 0]
  /\ hdata = [i \in Keys |-> ABSENT]
  /\ mut = 0
  /\ activated_ref = [i \in Keys |-> NULL]
  /\ dn = 0
  /\ ddata = [k \in 0 .. (max_n - 1) |-> RAW]
  /\ dtouched = 0

TaskInit ==
  /\ pc = [t \in Tasks |-> "idle"]
  /\ this = [t \in Tasks |-> NULL]
  /\ self = [t \in Tasks |-> NULL]
  /\ arg = [t \in Tasks |-> NULL]
  /\ index = [t \in Tasks |-> NoIndex]
  /\ id = [t \in Tasks |-> NULL]
  /\ ret = [t \in Tasks |-> NULL]

SweepInit ==
  /\ spc = [b \in Slots |-> [w \in Words |-> "none"]]
  /\ spos = [b \in Slots |-> NULL]
  /\ grid = 0
  /\ launches = 0
  /\ calls = 0

\* hostop: the call (op), the container instance (c), flattened index (i)
\* and coordinates (index) it was given, whether an activate found nothing
\* there (fresh), what it returned (result) and, for reset_meta and clear,
\* get_stat() as it was before the call (stat)
NoStat ==
  [snode_id |-> NULL, pool_size |-> NULL, num_recycled_blocks |-> NULL,
   num_resident_blocks |-> NULL]
NoHostOp ==
  [op |-> "none", c |-> NULL, i |-> NULL, index |-> NoIndex, fresh |-> FALSE,
   result |-> NULL, stat |-> NoStat]

\* ------------------------------------------------------------------------
\* SpecAlloc: NTasks tasks call allocate_node on one allocator concurrently,
\* starting from a fresh pool, with no reset_meta or clear in between.
\* ------------------------------------------------------------------------
CallAllocate(t) ==
  /\ pc[t] = "idle"
  /\ \E ix \in IndexInputs : index' = [index EXCEPT ![t] = ix]
  /\ this' = [this EXCEPT ![t] = get_allocator(get(PointerT))]
  /\ pc' = [pc EXCEPT ![t] = "alloc_claim"]
  /\ UNCHANGED <<alloc, overrun, regVars, ptrVars, hashVars, dynVars, self,
                 arg, id, ret, sweepVars, hostop>>

ReturnAllocate(t) == allocate_construct(t, "done")

InitAlloc ==
  /\ PoolInit /\ RegistryReady /\ ContainerInit /\ TaskInit /\ SweepInit
  /\ hostop = NoHostOp

NextAlloc ==
  \E t \in Tasks :
    \/ CallAllocate(t)
    \/ allocate_claim(t)
    \/ allocate_active(t)
    \/ allocate_ptr(t)
    \/ allocate_indices(t)
    \/ ReturnAllocate(t)

SpecAlloc == InitAlloc /\ [][NextAlloc]_vars

InAllocate(t) ==
  pc[t] \in {"alloc_claim", "alloc_active", "alloc_ptr", "alloc_indices",
             "alloc_construct"}
HasClaimed(t) == id[t] # NULL
Completed == {t \in Tasks : pc[t] = "done"}

\* C1: concurrent allocate_node calls from resident_tail = 0 claim pairwise
\* different slots, return pairwise different data pointers, and once no
\* call is in flight the resident counter (get_stat().num_resident_blocks)
\* equals the number of completed calls.
SlotUniqueness ==
  /\ \A t, u \in Tasks :
       (t # u /\ HasClaimed(t) /\ HasClaimed(u)) => id[t] # id[u]
  /\ \A t, u \in Completed : t # u => ret[t] # ret[u]
  /\ (\A t \in Tasks : ~InAllocate(t)) =>
       /\ alloc[PointerT].resident_tail = Cardinality(Completed)
       /\ get_stat(PointerT).num_resident_blocks = Cardinality(Completed)

\* all NTasks calls have completed
SlotUniquenessWitness ==
  /\ Cardinality(Completed) = NTasks
  /\ alloc[PointerT].resident_tail = NTasks

\* C6: a completed allocate_node(index) that claimed slot k and returned p
\* left resident_pool[k].indices = index component by component,
\* resident_pool[k].ptr = p = data_pool + k and resident_pool[k].active true.
MetadataFidelity ==
  \A t \in Completed :
    /\ id[t] \in Slots
    /\ ret[t] = SlotAddr(id[t])
    /\ alloc[this[t]].resident_pool[id[t]].ptr = ret[t]
    /\ alloc[this[t]].resident_pool[id[t]].active = 1
    /\ \A i \in 1 .. max_num_indices :
         alloc[this[t]].resident_pool[id[t]].indices[i] = index[t][i]

\* two completed calls with different coordinates whose slot order is the
\* reverse of their task order, while a third call is still in flight
MetadataFidelityWitness ==
  \E t, u \in Completed :
    /\ t < u
    /\ id[u] < id[t]
    /\ index[t] # index[u]
    /\ \E v \in Tasks : InAllocate(v) /\ HasClaimed(v)

\* ------------------------------------------------------------------------
\* pointer<>: look_up and activate
\* ------------------------------------------------------------------------
\* look_up(i): return data
pointer_look_up(c, i) == pdata[c]

\* a compare-and-swap that compares and never stores
atomicCASNoStore(old, compare, val) == old

\* atomicCAS(&lock, 0, 1): the value the word holds afterwards; the call
\* returns the value it held before
atomicCAS(old, compare, val) == IF old = compare THEN val ELSE old

\* while (!atomicCAS(&lock, 0, 1)) ; : the loop goes round again when the
\* value atomicCAS returned is 0
SpinAgain(old) == old = 0

\* an activate that allocates whatever data holds
NeedsChildAlways(d) == TRUE

\* if (data == nullptr)
NeedsChild(d) == d = NULL

\* ------------------------------------------------------------------------
\* SpecPtr: NTasks accelerator tasks of different warps call activate on
\* pointer-container instances concurrently (the __CUDA_ARCH__ path).  A task
\* passes the iterations k # warp_id of the loop without touching shared
\* state and enters the spin at k == warp_id.
\* ------------------------------------------------------------------------
CallActivate(t) ==
  /\ pc[t] = "idle"
  /\ \E c \in PtrInsts : self' = [self EXCEPT ![t] = c]
  /\ \E ix \in IndexInputs : index' = [index EXCEPT ![t] = ix]
  /\ arg' = [arg EXCEPT ![t] = 0]
  /\ pc' = [pc EXCEPT ![t] = "act_spin"]
  /\ UNCHANGED <<alloc, overrun, regVars, ptrVars, hashVars, dynVars, this,
                 id, ret, sweepVars, hostop>>

ActivateSpin(t) ==
  /\ pc[t] = "act_spin"
  /\ lock' = [lock EXCEPT ![self[t]] = atomicCAS(@, 0, 1)]
  /\ pc' = [pc EXCEPT ![t] =
              IF SpinAgain(lock[self[t]]) THEN "act_spin" ELSE "act_check"]
  /\ UNCHANGED <<alloc, overrun, regVars, pdata, hashVars, dynVars, this,
                 self, arg, index, id, ret, sweepVars, hostop>>

ActivateCheck(t) ==
  /\ pc[t] = "act_check"
  /\ IF NeedsChild(pdata[self[t]])
       THEN /\ this' = [this EXCEPT ![t] = get_allocator(get(PointerT))]
            /\ pc' = [pc EXCEPT ![t] = "alloc_claim"]
       ELSE /\ pc' = [pc EXCEPT ![t] = "act_unlock"]
            /\ UNCHANGED this
  /\ UNCHANGED <<alloc, overrun, regVars, ptrVars, hashVars, dynVars, self,
                 arg, index, id, ret, sweepVars, hostop>>

ReturnToActivate(t) == allocate_construct(t, "act_store")

ActivateStore(t) ==
  /\ pc[t] = "act_store"
  /\ pdata' = [pdata EXCEPT ![self[t]] = ret[t]]
  /\ pc' = [pc EXCEPT ![t] = "act_unlock"]
  /\ UNCHANGED <<alloc, overrun, regVars, lock, hashVars, dynVars, this,
                 self, arg, index, id, ret, sweepVars, hostop>>

ActivateUnlock(t) ==
  /\ pc[t] = "act_unlock"
  /\ lock' = [lock EXCEPT ![self[t]] = 0]
  /\ pc' = [pc EXCEPT ![t] = "activated"]
  /\ UNCHANGED <<alloc, overrun, regVars, pdata, hashVars, dynVars, this,
                 self, arg, index, id, ret, sweepVars, hostop>>

LookUpPointer(t) ==
  /\ pc[t] = "activated"
  /\ ret' = [ret EXCEPT ![t] = pointer_look_up(self[t], arg[t])]
  /\ pc' = [pc EXCEPT ![t] = "done"]
  /\ UNCHANGED <<alloc, overrun, regVars, ptrVars, hashVars, dynVars, this,
                 self, arg, index, id, sweepVars, hostop>>

InitPtr == InitAlloc

NextPtr ==
  \E t \in Tasks :
    \/ CallActivate(t)
    \/ ActivateSpin(t)
    \/ ActivateCheck(t)
    \/ allocate_claim(t)
    \/ allocate_active(t)
    \/ allocate_ptr(t)
    \/ allocate_indices(t)
    \/ ReturnToActivate(t)
    \/ ActivateStore(t)
    \/ ActivateUnlock(t)
    \/ LookUpPointer(t)

SpecPtr == InitPtr /\ [][NextPtr]_vars

\* the allocate_node calls made on behalf of pointer instance c
AllocationsFor(c) == {t \in Tasks : self[t] = c /\ HasClaimed(t)}
Callers(c) == {t \in Tasks : self[t] = c}
ActivateReturned(t) == pc[t] \in {"activated", "done"}

\* C2: concurrent activate calls on one pointer instance whose data is null
\* invoke allocate_node exactly once in every interleaving (the resident
\* counter grows by one per activated instance), and once all calls have
\* returned every look_up yields the one non-null child.
SingleWinner ==
  /\ \A c \in PtrInsts : Cardinality(AllocationsFor(c)) <= 1
  /\ alloc[PointerT].resident_tail <=
       Cardinality({c \in PtrInsts : Callers(c) # {}})
  /\ \A c \in PtrInsts :
       (Callers(c) # {} /\ \A t \in Callers(c) : ActivateReturned(t)) =>
         /\ pointer_look_up(c, 0) # NULL
         /\ Cardinality(AllocationsFor(c)) = 1
         /\ \A t \in Callers(c) : pc[t] = "done" => ret[t] = pdata[c]

\* ------------------------------------------------------------------------
\* hashed<>: look_up, activate, get_n
\* ------------------------------------------------------------------------
\* data.find(i) == data.end()
NotFound(h, i) == h[i] = ABSENT

\* a look_up that indexes the map without the find: operator[] default-
\* inserts a null entry for a key that is not there
hashed_look_up_entries_unguarded(h, i) ==
  IF NotFound(h, i) THEN [h EXCEPT ![i] = NULL] ELSE h

\* look_up(i): the map afterwards (data[i] is reached only for a key found)
hashed_look_up_entries(h, i) == h

\* look_up(i): the pointer returned
hashed_look_up(h, i) == IF NotFound(h, i) THEN NULL ELSE h[i]

\* data.insert(std::make_pair(i, ptr)): an existing entry is kept
MapInsert(h, i, p) == IF NotFound(h, i) THEN [h EXCEPT ![i] = p] ELSE h

\* get_n(): data.size()
hashed_get_n(h) == Cardinality({i \in Keys : ~NotFound(h, i)})

\* ------------------------------------------------------------------------
\* SpecHash: NTasks threads call activate on one hashed instance
\* concurrently.  activate never takes mut, so find, allocate_node and
\* insert of different threads interleave; an insert that meets an entry
\* another thread put there since this thread's find is a data race on the
\* map, whose outcomes here are the entry kept or the entry replaced.
\* ------------------------------------------------------------------------
CallHashedActivate(t) ==
  /\ pc[t] = "idle"
  /\ \E i \in Keys : arg' = [arg EXCEPT ![t] = i]
  /\ \E ix \in IndexInputs : index' = [index EXCEPT ![t] = ix]
  /\ pc' = [pc EXCEPT ![t] = "h_find"]
  /\ UNCHANGED <<alloc, overrun, regVars, ptrVars, hashVars, dynVars, this,
                 self, id, ret, sweepVars, hostop>>

HashedFind(t) ==
  /\ pc[t] = "h_find"
  /\ IF NotFound(hdata, arg[t])
       THEN /\ this' = [this EXCEPT ![t] = get_allocator(get(HashedT))]
            /\ pc' = [pc EXCEPT ![t] = "alloc_claim"]
       ELSE /\ pc' = [pc EXCEPT ![t] = "activated"]
            /\ UNCHANGED this
  /\ UNCHANGED <<alloc, overrun, regVars, ptrVars, hashVars, dynVars, self,
                 arg, index, id, ret, sweepVars, hostop>>

ReturnToHashed(t) == allocate_construct(t, "h_insert")

HashedInsert(t) ==
  /\ pc[t] = "h_insert"
  /\ \/ hdata' = MapInsert(hdata, arg[t], ret[t])
     \/ /\ ~NotFound(hdata, arg[t])
        /\ hdata' = [hdata EXCEPT ![arg[t]] = ret[t]]
  /\ pc' = [pc EXCEPT ![t] = "activated"]
  /\ UNCHANGED <<alloc, overrun, regVars, ptrVars, mut, activated_ref, dynVars, this, self,
                 arg, index, id, ret, sweepVars, hostop>>

LookUpHashed(t) ==
  /\ pc[t] = "activated"
  /\ hdata' = hashed_look_up_entries(hdata, arg[t])
  /\ ret' = [ret EXCEPT ![t] = hashed_look_up(hdata, arg[t])]
  /\ pc' = [pc EXCEPT ![t] = "done"]
  /\ UNCHANGED <<alloc, overrun, regVars, ptrVars, mut, activated_ref, dynVars, this, self,
                 arg, index, id, sweepVars, hostop>>

InitHash == InitAlloc

NextHash ==
  \E t \in Tasks :
    \/ CallHashedActivate(t)
    \/ HashedFind(t)
    \/ allocate_claim(t)
    \/ allocate_active(t)
    \/ allocate_ptr(t)
    \/ allocate_indices(t)
    \/ ReturnToHashed(t)
    \/ HashedInsert(t)
    \/ LookUpHashed(t)

SpecHash == InitHash /\ [][NextHash]_vars

\* the allocate_node calls made for flattened index i
AllocationsForKey(i) == {t \in Tasks : arg[t] = i /\ HasClaimed(t)}

\* C3: the hashed map is mutated only by a thread that holds mut, and
\* concurrent activate calls for one absent flattened index perform exactly
\* one allocate_node (and so insert one entry) in every interleaving.
HashedSingleInsert ==
  /\ \A t \in Tasks : pc[t] = "h_insert" => mut = t
  /\ \A i \in Keys : Cardinality(AllocationsForKey(i)) <= 1

\* ------------------------------------------------------------------------
\* SpecHost: one host thread calls activate and look_up on the pointer
\* instances and on the hashed instance serially (the path compiled without
\* __CUDA_ARCH__: activate of a pointer takes no lock).  Every action is one
\* whole call.
\* ------------------------------------------------------------------------
HostPointerActivate(c, i, ix) ==
  /\ IF NeedsChild(pdata[c])
       THEN /\ alloc' = [alloc EXCEPT ![get_allocator(get(PointerT))] =
                           AllocateNodeWhole(@, ix)]
            /\ pdata' = [pdata EXCEPT ![c] =
                           AllocateNodeResult(
                             alloc[get_allocator(get(PointerT))])]
       ELSE UNCHANGED <<alloc, pdata>>
  /\ hostop' = [op |-> "p_activate", c |-> c, i |-> i, index |-> ix,
                fresh |-> (pdata[c] = NULL), result |-> NULL, stat |-> NoStat]
  /\ UNCHANGED <<overrun, regVars, lock, hashVars, dynVars, taskVars,
                 sweepVars>>

HostPointerLookUp(c, i) ==
  /\ hostop' = [op |-> "p_look_up", c |-> c, i |-> i, index |-> NoIndex,
                fresh |-> FALSE, result |-> pointer_look_up(c, i),
                stat |-> NoStat]
  /\ UNCHANGED <<alloc, overrun, regVars, ptrVars, hashVars, dynVars,
                 taskVars, sweepVars>>

HostHashedActivate(i, ix) ==
  /\ IF NotFound(hdata, i)
       THEN /\ alloc' = [alloc EXCEPT ![get_allocator(get(HashedT))] =
                           AllocateNodeWhole(@, ix)]
            /\ hdata' = MapInsert(hdata, i,
                          AllocateNodeResult(
                            alloc[get_allocator(get(HashedT))]))
            /\ activated_ref' =
                 [activated_ref EXCEPT ![i] =
                    AllocateNodeResult(alloc[get_allocator(get(HashedT))])]
       ELSE UNCHANGED <<alloc, hdata, activated_ref>>
  /\ hostop' = [op |-> "h_activate", c |-> NULL, i |-> i, index |-> ix,
                fresh |-> NotFound(hdata, i), result |-> NULL, stat |-> NoStat]
  /\ UNCHANGED <<overrun, regVars, ptrVars, mut, dynVars, taskVars,
                 sweepVars>>

HostHashedLookUp(i) ==
  /\ hdata' = hashed_look_up_entries(hdata, i)
  /\ hostop' = [op |-> "h_look_up", c |-> NULL, i |-> i, index |-> NoIndex,
                fresh |-> FALSE, result |-> hashed_look_up(hdata, i),
                stat |-> NoStat]
  /\ UNCHANGED <<alloc, overrun, regVars, ptrVars, mut, activated_ref,
                 dynVars, taskVars, sweepVars>>

InitHost == InitAlloc

NextHost ==
  \/ \E c \in PtrInsts, i \in Keys, ix \in IndexInputs :
       HostPointerActivate(c, i, ix)
  \/ \E c \in PtrInsts, i \in Keys : HostPointerLookUp(c, i)
  \/ \E i \in Keys, ix \in IndexInputs : HostHashedActivate(i, ix)
  \/ \E i \in Keys : HostHashedLookUp(i)

SpecHost == InitHost /\ [][NextHost]_vars

\* C4: under serial calls, activate of a pointer instance that already has a
\* child, or of a hashed flattened index that already has an entry, with the
\* same or other coordinates, allocates nothing (no allocator changes, the
\* resident counters stay) and look_up returns the same child afterwards.
IdempotentActivation ==
  [][ /\ \A c \in PtrInsts :
           (hostop'.op = "p_activate" /\ hostop'.c = c /\ pdata[c] # NULL) =>
             /\ alloc' = alloc
             /\ pdata'[c] = pdata[c]
      /\ \A i \in Keys :
           (hostop'.op = "h_activate" /\ hostop'.i = i
              /\ ~NotFound(hdata, i)) =>
             /\ alloc' = alloc
             /\ hashed_look_up(hdata', i) = hashed_look_up(hdata, i)
    ]_vars

\* a pointer instance was activated again, with coordinates other than the
\* ones its child was allocated with, after the hashed instance got an entry
IdempotentActivationWitness ==
  /\ hostop.op = "p_activate"
  /\ ~hostop.fresh
  /\ pdata[hostop.c] \in Slots
  /\ alloc[PointerT].resident_pool[pdata[hostop.c]].indices # hostop.index
  /\ \E i \in Keys : ~NotFound(hdata, i)

\* C5: look_up(i) of a hashed container is null for every flattened index
\* that was never activated, and adds no entry (get_n() counts the activated
\* indices only); after activate(i, coords) look_up(i) is the non-null
\* pointer allocate_node returned to that activate.
HashedAbsencePresence ==
  /\ \A i \in Keys :
       /\ activated_ref[i] = NULL =>
            (NotFound(hdata, i) /\ hashed_look_up(hdata, i) = NULL)
       /\ activated_ref[i] # NULL =>
            (activated_ref[i] \in Slots
               /\ hashed_look_up(hdata, i) = activated_ref[i])
  /\ hashed_get_n(hdata) = Cardinality({i \in Keys : activated_ref[i] # NULL})
  /\ hostop.op = "h_look_up" => hostop.result = activated_ref[hostop.i]

\* look_up of an untouched index returned null while another index is
\* present
HashedAbsencePresenceWitness ==
  /\ hostop.op = "h_look_up"
  /\ hostop.result = NULL
  /\ activated_ref[hostop.i] = NULL
  /\ \E j \in Keys : j # hostop.i /\ hashed_look_up(hdata, j) \in Slots

\* ------------------------------------------------------------------------
\* recycle_all_gpu<T><<<resident_tail, sizeof(data_type) / 4>>> and clear()
\* ------------------------------------------------------------------------
\* if (allocator->resident_pool[b].active) return; : a flag never written
\* reads as either
MayBeActive(m) == m.active # 0
MayBeInactive(m) == m.active \in {0, RAW}

\* auto ptr = (int *)(&allocator->data_pool[b]); ptr[b] = 0; : the word
\* written is word b counted from the start of slot b
ZeroFillSlot(b) == (b * WordsPerNode + b) \div WordsPerNode
ZeroFillWord(b) == (b * WordsPerNode + b) % WordsPerNode
ZeroFill(A, b) ==
  IF ZeroFillSlot(b) \in Slots
    THEN [A EXCEPT !.data_pool[ZeroFillSlot(b)][ZeroFillWord(b)] = 0]
    ELSE A

\* a sweep in which every thread of a block pushes
PushesRecordAny(w) == TRUE

\* if (t == 0)
PushesRecord(w) == w = 0

\* atomic_add(&allocator->recycle_tail, 1): the counter after the add
ClaimRecycle(A) == [A EXCEPT !.recycle_tail = @ + 1]

\* a push that clears the pointer of the record it appends
PushRecordCleared(A, p, b) ==
  IF p \in Slots /\ b \in Slots
    THEN [A EXCEPT !.recycle_pool[p] = [A.resident_pool[b] EXCEPT !.ptr = NULL]]
    ELSE A

\* allocator->recycle_pool[...] = allocator->resident_pool[b]
PushRecord(A, p, b) ==
  IF p \in Slots /\ b \in Slots
    THEN [A EXCEPT !.recycle_pool[p] = A.resident_pool[b]]
    ELSE A

\* the kernel has not been launched or every thread of it has returned
SweepQuiet ==
  \A b \in Slots, w \in Words : spc[b][w] \in {"none", "done"}

\* block b: its sizeof(data_type) / 4 threads are one warp and run the check
\* of the active flag and the zero-fill in lock-step; the threads that push
\* go on to the atomic_add, the others return
SweepEnter(b) ==
  /\ \A w \in Words : spc[b][w] = "ready"
  /\ \/ /\ MayBeActive(alloc[PointerT].resident_pool[b])
        /\ spc' = [spc EXCEPT ![b] = [w \in Words |-> "done"]]
        /\ UNCHANGED <<alloc, overrun>>
     \/ /\ MayBeInactive(alloc[PointerT].resident_pool[b])
        /\ alloc' = [alloc EXCEPT ![PointerT] = ZeroFill(@, b)]
        /\ overrun' = (overrun \/ ZeroFillSlot(b) \notin Slots)
        /\ spc' = [spc EXCEPT ![b] =
                     [w \in Words |->
                        IF PushesRecord(w) THEN "claim" ELSE "done"]]
  /\ UNCHANGED <<regVars, ptrVars, hashVars, dynVars, taskVars, spos, grid,
                 launches, calls, hostop>>

\* thread (b, 0): the atomic_add that draws the append position
SweepClaim(b, w) ==
  /\ spc[b][w] = "claim"
  /\ spos' = [spos EXCEPT ![b] = alloc[PointerT].recycle_tail]
  /\ alloc' = [alloc EXCEPT ![PointerT] = ClaimRecycle(@)]
  /\ spc' = [spc EXCEPT ![b][w] = "push"]
  /\ UNCHANGED <<overrun, regVars, ptrVars, hashVars, dynVars, taskVars,
                 grid, launches, calls, hostop>>

\* thread (b, 0): the copy of the record to the position drawn
SweepPush(b, w) ==
  /\ spc[b][w] = "push"
  /\ alloc' = [alloc EXCEPT ![PointerT] = PushRecord(@, spos[b], b)]
  /\ overrun' = (overrun \/ spos[b] \notin Slots)
  /\ spc' = [spc EXCEPT ![b][w] = "done"]
  /\ UNCHANGED <<regVars, ptrVars, hashVars, dynVars, taskVars, spos, grid,
                 launches, calls, hostop>>

\* ------------------------------------------------------------------------
\* SpecPool: the host thread calls allocate_node, reset_meta and clear on
\* one allocator serially; kernels mark resident slots inactive; the
\* threads of the sweep kernel clear launches interleave freely, and the
\* host makes its next call once the kernel has finished.
\* ------------------------------------------------------------------------
\* the coordinates the host passes for the slot it is about to fill: the
\* first coordinate alternates with the resident counter
HostIndex(k) ==
  [i \in 1 .. max_num_indices |-> IF i = 1 THEN k % 2 ELSE 1 - (k % 2)]

HostAllocateNode(ix) ==
  /\ SweepQuiet
  /\ alloc[PointerT].resident_tail < MaxResident
  /\ calls < MaxCalls
  /\ calls' = calls + 1
  /\ alloc' = [alloc EXCEPT ![PointerT] = AllocateNodeWhole(@, ix)]
  /\ hostop' = [op |-> "allocate_node", c |-> NULL, i |-> NULL,
                index |-> ix, fresh |-> FALSE,
                result |-> AllocateNodeResult(alloc[PointerT]),
                stat |-> NoStat]
  /\ UNCHANGED <<overrun, regVars, ptrVars, hashVars, dynVars, taskVars,
                 spc, spos, grid, launches>>

\* a kernel of the structure's user marks resident slot k inactive
Deactivate(k) ==
  /\ SweepQuiet
  /\ k < alloc[PointerT].resident_tail
  /\ alloc[PointerT].resident_pool[k].active = 1
  /\ alloc' = [alloc EXCEPT ![PointerT].resident_pool[k].active = 0]
  /\ UNCHANGED <<overrun, regVars, ptrVars, hashVars, dynVars, taskVars,
                 sweepVars, hostop>>

HostResetMeta ==
  /\ SweepQuiet
  /\ alloc' = [alloc EXCEPT ![PointerT] = reset_meta(@)]
  /\ hostop' = [op |-> "reset_meta", c |-> NULL, i |-> NULL,
                index |-> NoIndex, fresh |-> FALSE, result |-> NULL,
                stat |-> get_stat(PointerT)]
  /\ UNCHANGED <<overrun, regVars, ptrVars, hashVars, dynVars, taskVars,
                 sweepVars>>

\* clear(): the launch of resident_tail blocks of sizeof(data_type) / 4
\* threads, then resident_tail = 0
HostClear ==
  /\ SweepQuiet
  /\ launches < MaxLaunches
  /\ launches' = launches + 1
  /\ grid' = alloc[PointerT].resident_tail
  /\ spc' = [b \in Slots |-> [w \in Words |->
               IF b < alloc[PointerT].resident_tail THEN "ready" ELSE "none"]]
  /\ spos' = [b \in Slots |-> NULL]
  /\ alloc' = [alloc EXCEPT ![PointerT].resident_tail = 0]
  /\ hostop' = [op |-> "clear", c |-> NULL, i |-> NULL, index |-> NoIndex,
                fresh |-> FALSE, result |-> NULL,
                stat |-> get_stat(PointerT)]
  /\ UNCHANGED <<overrun, regVars, ptrVars, hashVars, dynVars, taskVars, calls>>

InitPool == InitAlloc

NextPool ==
  \/ HostAllocateNode(HostIndex(alloc[PointerT].resident_tail))
  \/ \E k \in Slots : Deactivate(k)
  \/ HostResetMeta
  \/ HostClear
  \/ \E b \in Slots : SweepEnter(b)
  \/ \E b \in Slots, w \in Words : SweepClaim(b, w)
  \/ \E b \in Slots, w \in Words : SweepPush(b, w)

SpecPool == InitPool /\ [][NextPool]_vars

\* the slots the last clear() found resident and the ones among them that
\* are marked inactive
SweptSlots == {b \in Slots : b < grid}
InactiveSlots ==
  {b \in SweptSlots : alloc[PointerT].resident_pool[b].active = 0}
\* the blocks whose thread 0 has drawn a recycle position
Drawn == {b \in Slots : spos[b] # NULL}
\* the recycle positions appended since the last clear() began
Appended ==
  {p \in Slots : /\ hostop.stat.num_recycled_blocks <= p
                 /\ p < alloc[PointerT].recycle_tail}

\* C7: after clear() on a pool with R resident slots of which M are marked
\* inactive, resident_tail is 0 at once; while the sweep runs no two blocks
\* hold the same recycle position, only inactive slots draw one, and
\* recycle_tail has grown by the number of positions drawn; once every
\* thread has returned recycle_tail has grown by exactly M, every appended
\* position holds the record of exactly one inactive slot, every inactive
\* slot's record is at exactly one appended position, and no appended
\* record belongs to a slot still marked active.
ReclamationSweep ==
  hostop.op = "clear" =>
    LET A == alloc[PointerT]
        r0 == hostop.stat.num_recycled_blocks
    IN  /\ A.resident_tail = 0
        /\ grid = hostop.stat.num_resident_blocks
        /\ \A b1, b2 \in Drawn : b1 # b2 => spos[b1] # spos[b2]
        /\ Drawn \subseteq InactiveSlots
        /\ \A b \in Drawn : spos[b] \in Appended
        /\ A.recycle_tail = r0 + Cardinality(Drawn)
        /\ \A b \in Drawn :
             spc[b][0] = "done" => A.recycle_pool[spos[b]] = A.resident_pool[b]
        /\ SweepQuiet =>
             /\ A.recycle_tail = r0 + Cardinality(InactiveSlots)
             /\ \A b \in InactiveSlots :
                  Cardinality({p \in Appended :
                                 A.recycle_pool[p] = A.resident_pool[b]}) = 1
             /\ \A p \in Appended :
                  /\ A.recycle_pool[p].active = 0
                  /\ Cardinality({b \in InactiveSlots :
                                    A.recycle_pool[p] = A.resident_pool[b]}) = 1
                  /\ \A b \in SweptSlots \ InactiveSlots :
                       A.recycle_pool[p].ptr # A.resident_pool[b].ptr

\* the sweep over four resident slots, all four inactive, has finished:
\* four records recycled, none resident
ReclamationSweepWitness ==
  /\ hostop.op = "clear"
  /\ SweepQuiet
  /\ hostop.stat.num_resident_blocks = 4
  /\ hostop.stat.num_recycled_blocks = 0
  /\ Cardinality(InactiveSlots) = 4
  /\ alloc[PointerT].recycle_tail = 4
  /\ alloc[PointerT].resident_tail = 0
  /\ \A p \in 0 .. 3 : alloc[PointerT].recycle_pool[p].active = 0

\* C8: a reset_meta() call sets resident_tail and recycle_tail to 0, so
\* the get_stat() that follows reports no resident and no recycled block
\* and the same snode_id and pool_size as before, and it changes no word of
\* the data storage and no metadata record.
ResetCorrectness ==
  [][HostResetMeta =>
       /\ alloc'[PointerT].resident_tail = 0
       /\ alloc'[PointerT].recycle_tail = 0
       /\ get_stat(PointerT)'.num_resident_blocks = 0
       /\ get_stat(PointerT)'.num_recycled_blocks = 0
       /\ get_stat(PointerT)'.snode_id = get_stat(PointerT).snode_id
       /\ get_stat(PointerT)'.pool_size = get_stat(PointerT).pool_size
       /\ alloc'[PointerT].data_pool = alloc[PointerT].data_pool
       /\ alloc'[PointerT].resident_pool = alloc[PointerT].resident_pool
       /\ alloc'[PointerT].recycle_pool = alloc[PointerT].recycle_pool]_vars

\* reset_meta() has just returned on a pool that had resident and recycled
\* blocks: both counters read 0 and a constructed node is still in the
\* data storage
ResetCorrectnessWitness ==
  /\ hostop.op = "reset_meta"
  /\ hostop.stat.num_resident_blocks > 0
  /\ hostop.stat.num_recycled_blocks > 0
  /\ get_stat(PointerT).num_resident_blocks = 0
  /\ get_stat(PointerT).num_recycled_blocks = 0
  /\ \E k \in Slots : \A w \in Words : alloc[PointerT].data_pool[k][w] = INIT

\* ------------------------------------------------------------------------
\* SpecDyn: up to max_n tasks call append on one dynamic container
\* concurrently, each once, starting from n = 0.
\* ------------------------------------------------------------------------
\* the values a caller may append
ChildValues == {0, 1}

\* an add that leaves the counter where it was
AppendTailStale(n) == n

\* atomic_add(&n, 1): the counter after the add; the call returns the
\* counter before it
AppendTail(n) == n + 1

\* dynamic::get_n()
dynamic_get_n == dn

CallAppend(t) ==
  /\ pc[t] = "idle"
  /\ Cardinality({u \in Tasks : pc[u] # "idle"}) < max_n
  /\ \E v \in ChildValues : arg' = [arg EXCEPT ![t] = v]
  /\ pc' = [pc EXCEPT ![t] = "app_claim"]
  /\ UNCHANGED <<alloc, overrun, regVars, ptrVars, hashVars, dynVars, this,
                 self, index, id, ret, sweepVars, hostop>>

\* data[atomic_add(&n, 1)] = t : the index is drawn first
AppendClaim(t) ==
  /\ pc[t] = "app_claim"
  /\ id' = [id EXCEPT ![t] = dn]
  /\ dn' = AppendTail(dn)
  /\ pc' = [pc EXCEPT ![t] = "app_write"]
  /\ UNCHANGED <<alloc, overrun, regVars, ptrVars, hashVars, ddata, dtouched,
                 this, self, arg, index, ret, sweepVars, hostop>>

\* data[atomic_add(&n, 1)] = t : the store to the index drawn
AppendWrite(t) ==
  /\ pc[t] = "app_write"
  /\ IF id[t] \in DOMAIN ddata
       THEN ddata' = [ddata EXCEPT ![id[t]] = arg[t]] /\ UNCHANGED overrun
       ELSE overrun' = TRUE /\ UNCHANGED ddata
  /\ pc' = [pc EXCEPT ![t] = "app_done"]
  /\ UNCHANGED <<alloc, regVars, ptrVars, hashVars, dn, dtouched, this, self,
                 arg, index, id, ret, sweepVars, hostop>>

InitDyn == InitAlloc

NextDyn ==
  \E t \in Tasks :
    \/ CallAppend(t)
    \/ AppendClaim(t)
    \/ AppendWrite(t)

SpecDyn == InitDyn /\ [][NextDyn]_vars

\* the tasks that have drawn an index, and the ones whose append returned
Appenders == {t \in Tasks : pc[t] \in {"app_write", "app_done"}}
AppendReturned == {t \in Tasks : pc[t] = "app_done"}

\* C9: concurrent append calls on a dynamic container that starts empty
\* draw pairwise different indices, all below get_n(), and get_n() is the
\* number of indices drawn; a returned append has its value at its index;
\* when all C calls have returned get_n() = C, every index in [0, C) holds
\* the value of exactly the one call that drew it and none is unwritten.
ConcurrentAppend ==
  /\ \A t1, t2 \in Appenders : t1 # t2 => id[t1] # id[t2]
  /\ \A t \in Appenders : 0 <= id[t] /\ id[t] < dynamic_get_n
  /\ dynamic_get_n = Cardinality(Appenders)
  /\ \A t \in AppendReturned : ddata[id[t]] = arg[t]
  /\ ~overrun
  /\ (\A t \in Tasks : pc[t] \in {"idle", "app_done"}) =>
       LET C == Cardinality(AppendReturned)
       IN  /\ dynamic_get_n = C
           /\ \A k \in 0 .. (C - 1) :
                /\ ddata[k] # RAW
                /\ Cardinality({t \in AppendReturned : id[t] = k}) = 1
                /\ \A t \in AppendReturned : id[t] = k => ddata[k] = arg[t]
           /\ \A k \in DOMAIN ddata : k >= C => ddata[k] = RAW

\* max_n appends that interleaved have all returned, two of them with
\* different values, the one that drew the later index having been called
\* with the other value
ConcurrentAppendWitness ==
  /\ Cardinality(AppendReturned) = max_n
  /\ dynamic_get_n = max_n
  /\ \A k \in DOMAIN ddata : ddata[k] # RAW
  /\ \E t1, t2 \in AppendReturned :
       t1 < t2 /\ id[t1] > id[t2] /\ arg[t1] # arg[t2]

\* ------------------------------------------------------------------------
\* SpecReg: the registry from its construction on.  Managers() writes no
\* slot, so each slot starts with whatever the memory held: a null pointer
\* or garbage.  Host and accelerator tasks call Managers::get<T>(); the
\* host stores a new SNodeManager<T> through the reference get<T>() returns.
\* ------------------------------------------------------------------------
\* the node types whose containers ask the registry for their allocator
PoolTypes == {PointerT, HashedT}

\* SNodeManager(): allocator = create_unified<Allocator>()
NewManagerAllocator(T) == T

\* the holder handed out by the n-th create_unified<SNodeManager<T>>()
NewHolder == Cardinality(DOMAIN manager_allocator)

GetCall(t) ==
  /\ pc[t] = "idle"
  /\ \E T \in PoolTypes : arg' = [arg EXCEPT ![t] = T]
  /\ pc' = [pc EXCEPT ![t] = "get"]
  /\ UNCHANGED <<alloc, overrun, regVars, ptrVars, hashVars, dynVars, this,
                 self, index, id, ret, sweepVars, hostop>>

\* return get_instance()->get_manager<T>();
GetReturn(t) ==
  /\ pc[t] = "get"
  /\ ret' = [ret EXCEPT ![t] = get(arg[t])]
  /\ pc' = [pc EXCEPT ![t] = "got"]
  /\ UNCHANGED <<alloc, overrun, regVars, ptrVars, hashVars, dynVars, this,
                 self, arg, index, id, sweepVars, hostop>>

\* host: Managers::get<T>() = create_unified<SNodeManager<T>>(); for a
\* type whose slot holds no holder yet
HostInstall(T) ==
  /\ ~IsManager(get(T))
  /\ managers' = [managers EXCEPT ![T] = NewHolder]
  /\ manager_allocator' =
       [h \in DOMAIN manager_allocator \cup {NewHolder} |->
          IF h = NewHolder THEN NewManagerAllocator(T)
                           ELSE manager_allocator[h]]
  /\ alloc' = [a \in DOMAIN alloc \cup {NewManagerAllocator(T)} |->
                 IF a = NewManagerAllocator(T) THEN NewAllocator
                                               ELSE alloc[a]]
  /\ hostop' = [NoHostOp EXCEPT !.op = "install", !.i = T,
                                !.result = NewHolder]
  /\ UNCHANGED <<overrun, ptrVars, hashVars, dynVars, taskVars, sweepVars>>

\* Managers() {} on memory that holds null pointers or garbage
InitReg ==
  /\ managers \in [TypeIds -> {NULL, RAW}]
  /\ manager_allocator = [h \in {} |-> NULL]
  /\ alloc = [a \in {} |-> NewAllocator]
  /\ overrun = FALSE
  /\ ContainerInit /\ TaskInit /\ SweepInit
  /\ hostop = NoHostOp

NextReg ==
  \/ \E t \in Tasks : GetCall(t)
  \/ \E t \in Tasks : GetReturn(t)
  \/ \E T \in PoolTypes : HostInstall(T)

SpecReg == InitReg /\ [][NextReg]_vars

\* the tasks whose get<T>() has returned
Got == {t \in Tasks : pc[t] = "got"}

\* C10 as stated: a get<T>() that has returned has returned a holder,
\* created by the call if the slot held none.
GetCreatesHolder == \A t \in Got : IsManager(ret[t])

\* C10: get<T>() creates nothing and writes nothing: it returns what the
\* slot of T holds, a holder only if the host has stored one there; a
\* stored holder stays in its slot, so the calls that returned a holder
\* for the same T returned the same holder and reach the same allocator,
\* and the holders of different types are different.
RegistrySharing ==
  [][/\ \A t \in Tasks :
          (pc[t] = "get" /\ pc'[t] = "got") =>
             /\ ret'[t] = managers[arg[t]]
             /\ UNCHANGED <<managers, manager_allocator, alloc>>
     /\ \A T \in TypeIds :
          IsManager(managers[T]) => managers'[T] = managers[T]
     /\ \A t1, t2 \in Tasks :
          (/\ pc'[t1] = "got" /\ pc'[t2] = "got"
           /\ IsManager(ret'[t1]) /\ IsManager(ret'[t2])) =>
             /\ (arg'[t1] = arg'[t2]) <=> (ret'[t1] = ret'[t2])
             /\ arg'[t1] = arg'[t2] =>
                  get_allocator(ret'[t1]) = get_allocator(ret'[t2])
             /\ ret'[t1] = managers'[arg'[t1]]]_vars

\* two tasks have got the one holder the host stored for a type, which is
\* not the first type stored, and a third task's get<T>() of another type
\* returned no holder and left that slot without one
RegistrySharingWitness ==
  \E t1, t2, t3 \in Got :
    /\ t1 # t2
    /\ arg[t1] = arg[t2]
    /\ IsManager(ret[t1])
    /\ ret[t1] = ret[t2]
    /\ ret[t1] # arg[t1]
    /\ ~IsManager(ret[t3])
    /\ ~IsManager(managers[arg[t3]])

\* ------------------------------------------------------------------------
\* SpecErr: callers reach allocate_node through the registry,
\* Managers::get<T>()->get_allocator()->allocate_node(index), for a type
\* whose slot the host never stored to (PointerT: the slot holds a null
\* pointer or garbage), a type set up in full (HashedT) and a type whose
\* allocator was constructed without a data pool (DynamicT).
\* ------------------------------------------------------------------------
DynamicT == 2

ErrTypes == {PointerT, HashedT, DynamicT}

\* the pools as constructed
ErrPools == [a \in {HashedT, DynamicT} |-> NewAllocator]

\* what a read through a pointer that is no holder can give: any address,
\* that of a constructed allocator or a null pointer
WildAllocators == DOMAIN alloc \cup {NULL}

ErrCall(t) ==
  /\ pc[t] = "idle"
  /\ \E T \in ErrTypes : arg' = [arg EXCEPT ![t] = T]
  /\ index' = [index EXCEPT ![t] = HostIndex(t)]
  /\ pc' = [pc EXCEPT ![t] = "e_get"]
  /\ UNCHANGED <<alloc, overrun, regVars, ptrVars, hashVars, dynVars, this,
                 self, id, ret, sweepVars, hostop>>

\* get<T>()->get_allocator(): the slot is read and the pointer in it is
\* dereferenced with no test; if it is no holder the read is undefined: it
\* faults or yields some address
ErrDeref(t) ==
  /\ pc[t] = "e_get"
  /\ IF IsManager(get(arg[t]))
       THEN /\ this' = [this EXCEPT ![t] = get_allocator(get(arg[t]))]
            /\ pc' = [pc EXCEPT ![t] = "e_assert"]
       ELSE \/ /\ pc' = [pc EXCEPT ![t] = "e_fault"]
               /\ UNCHANGED this
            \/ /\ \E a \in WildAllocators : this' = [this EXCEPT ![t] = a]
               /\ pc' = [pc EXCEPT ![t] = "e_assert"]
  /\ UNCHANGED <<alloc, overrun, regVars, ptrVars, hashVars, dynVars, self,
                 arg, index, id, ret, sweepVars, hostop>>

\* the three TC_ASSERTs at the head of allocate_node
ErrAssert(t) ==
  /\ pc[t] = "e_assert"
  /\ pc' = [pc EXCEPT ![t] = IF AllocatorAsserts(this[t])
                               THEN "alloc_claim" ELSE "assert_failed"]
  /\ UNCHANGED <<alloc, overrun, regVars, ptrVars, hashVars, dynVars, this,
                 self, arg, index, id, ret, sweepVars, hostop>>

InitErr ==
  /\ managers \in {m \in [TypeIds -> {NULL, RAW, HashedT, DynamicT}] :
                     /\ m[PointerT] \in {NULL, RAW}
                     /\ m[HashedT] = HashedT
                     /\ m[DynamicT] = DynamicT
                     /\ \A T \in TypeIds \ ErrTypes : m[T] = RAW}
  /\ manager_allocator = [h \in {HashedT, DynamicT} |-> h]
  /\ alloc = ErrPools
  /\ overrun = FALSE
  /\ ContainerInit /\ TaskInit /\ SweepInit
  /\ hostop = NoHostOp

NextErr ==
  \E t \in Tasks :
    \/ ErrCall(t)
    \/ ErrDeref(t)
    \/ ErrAssert(t)
    \/ allocate_claim(t)
    \/ allocate_active(t)
    \/ allocate_ptr(t)
    \/ allocate_indices(t)
    \/ allocate_construct(t, "done")

SpecErr == InitErr /\ [][NextErr]_vars

\* a type whose slot holds no holder, or whose allocator has no data pool
Unusable(T) == ~IsManager(get(T)) \/ ~has_null(T)

\* C11 as stated: a call for a type whose registry slot was never stored
\* to, or whose allocator has no data pool, is stopped by an assertion
\* before allocate_node touches a pool: it is never past the assertions
\* and never ends any other way, and while only such calls have been made
\* every pool is as constructed.
UninitializedUseAsserts ==
  /\ \A t \in Tasks :
       (pc[t] # "idle" /\ Unusable(arg[t])) =>
          pc[t] \in {"e_get", "e_assert", "assert_failed"}
  /\ (\A t \in Tasks : pc[t] # "idle" => Unusable(arg[t])) => alloc = ErrPools

\* ------------------------------------------------------------------------
\* SpecCap: the host's calls on one allocator as in SpecPool, with
\* allocate_node called as the code allows it: whatever resident_tail is.
\* The host makes at most pool_size + 1 such calls.
\* ------------------------------------------------------------------------
CapAllocateNode(ix) ==
  /\ SweepQuiet
  /\ calls < pool_size + 1
  /\ calls' = calls + 1
  /\ alloc' = [alloc EXCEPT ![PointerT] = AllocateNodeWhole(@, ix)]
  /\ overrun' = (overrun \/ alloc[PointerT].resident_tail \notin Slots)
  /\ hostop' = [op |-> "allocate_node", c |-> NULL, i |-> NULL,
                index |-> ix, fresh |-> FALSE,
                result |-> AllocateNodeResult(alloc[PointerT]),
                stat |-> NoStat]
  /\ UNCHANGED <<regVars, ptrVars, hashVars, dynVars, taskVars, spc, spos,
                 grid, launches>>

InitCap == InitAlloc

NextCap ==
  \/ CapAllocateNode(HostIndex(alloc[PointerT].resident_tail))
  \/ \E k \in Slots : Deactivate(k)
  \/ HostResetMeta
  \/ HostClear
  \/ \E b \in Slots : SweepEnter(b)
  \/ \E b \in Slots, w \in Words : SweepClaim(b, w)
  \/ \E b \in Slots, w \in Words : SweepPush(b, w)

SpecCap == InitCap /\ [][NextCap]_vars

\* C12 as stated: in every reachable state of a pool the resident counter
\* is at most pool_size, and a slot index allocate_node has just handed out
\* is below pool_size.
CapacityInvariant ==
  /\ alloc[PointerT].resident_tail <= pool_size
  /\ hostop.op = "allocate_node" => hostop.result < pool_size

\* the metadata records a pool tracks: resident_pool below resident_tail
\* and recycle_pool below recycle_tail
TrackedResident == {k \in Slots : k < alloc[PointerT].resident_tail}
TrackedRecycled == {p \in Slots : p < alloc[PointerT].recycle_tail}

\* C13 as stated: between the host's calls every tracked record has a
\* non-null ptr if and only if it is active.
MetadataIff ==
  SweepQuiet =>
    /\ \A k \in TrackedResident :
         (alloc[PointerT].resident_pool[k].ptr # NULL) <=>
         (alloc[PointerT].resident_pool[k].active = 1)
    /\ \A p \in TrackedRecycled :
         (alloc[PointerT].recycle_pool[p].ptr # NULL) <=>
         (alloc[PointerT].recycle_pool[p].active = 1)

\* C13: between the host's calls every tracked record has a written,
\* non-null ptr whether it is active or not: a resident record points to
\* its own slot and is active or was marked inactive, a recycled record is
\* inactive and keeps the pointer of the slot it was allocated at; so an
\* active record has a non-null ptr, and an inactive one has too.
MetadataPointer ==
  /\ \A k \in TrackedResident :
       /\ alloc[PointerT].resident_pool[k].ptr = SlotAddr(k)
       /\ alloc[PointerT].resident_pool[k].ptr # NULL
       /\ alloc[PointerT].resident_pool[k].active \in {0, 1}
  /\ SweepQuiet =>
       \A p \in TrackedRecycled :
         /\ alloc[PointerT].recycle_pool[p].active = 0
         /\ alloc[PointerT].recycle_pool[p].ptr \in Slots
         /\ alloc[PointerT].recycle_pool[p].ptr # NULL

\* between calls the pool tracks an active resident record, a resident
\* record marked inactive and a recycled record, the last two inactive
\* with a pointer
MetadataPointerWitness ==
  /\ SweepQuiet
  /\ \E k1, k2 \in TrackedResident :
       /\ alloc[PointerT].resident_pool[k1].active = 1
       /\ alloc[PointerT].resident_pool[k2].active = 0
       /\ alloc[PointerT].resident_pool[k2].ptr = SlotAddr(k2)
  /\ \E p \in TrackedRecycled :
       /\ alloc[PointerT].recycle_pool[p].active = 0
       /\ alloc[PointerT].recycle_pool[p].ptr \in Slots

\* slot k holds a constructed instance and its record is written in full
LiveSlot(k) ==
  /\ alloc[PointerT].resident_pool[k].active = 1
  /\ alloc[PointerT].resident_pool[k].ptr = SlotAddr(k)
  /\ alloc[PointerT].resident_pool[k].indices \in IndexInputs
  /\ \A w \in Words : alloc[PointerT].data_pool[k][w] = INIT

\* C14 as stated: in every state, the intermediate states of concurrent
\* allocate_node calls included, slot k holds a constructed instance with
\* written metadata exactly if k is below resident_tail.
LiveSlotInvariant ==
  \A k \in Slots : (k < alloc[PointerT].resident_tail) <=> LiveSlot(k)

\* C15 as stated: once look_up on a pointer instance or on a key of the
\* hashed container yields a non-null child, no step changes what it
\* yields.
OneWayPresence ==
  [][/\ \A c \in PtrInsts :
          pointer_look_up(c, 0) # NULL =>
             pointer_look_up(c, 0)' = pointer_look_up(c, 0)
     /\ \A i \in Keys :
          hashed_look_up(hdata, i) # NULL =>
             hashed_look_up(hdata', i) = hashed_look_up(hdata, i)]_vars

\* C16 as stated: when the sweep clear() launched has finished, every word
\* of the data slot of each swept slot that is marked inactive is 0, and
\* the data slots of the swept slots still marked active hold what they
\* held: the words of a constructed instance.
ZeroFillOnReclaim ==
  (hostop.op = "clear" /\ SweepQuiet) =>
    \A b \in SweptSlots, w \in Words :
      alloc[PointerT].data_pool[b][w] =
        IF b \in InactiveSlots THEN 0 ELSE INIT

\* ------------------------------------------------------------------------
\* SpecSpin: a contention group of NTasks accelerator tasks that all call
\* activate on the same pointer instance, each once, every task being
\* scheduled again and again.  allocate_node is taken as one step here.
\* ------------------------------------------------------------------------
\* the pointer instance the group contends for
SpinInst == 1

SpinCall(t) ==
  /\ pc[t] = "idle"
  /\ self' = [self EXCEPT ![t] = SpinInst]
  /\ index' = [index EXCEPT ![t] = HostIndex(t)]
  /\ arg' = [arg EXCEPT ![t] = 0]
  /\ pc' = [pc EXCEPT ![t] = "act_spin"]
  /\ UNCHANGED <<alloc, overrun, regVars, ptrVars, hashVars, dynVars, this,
                 id, ret, sweepVars, hostop>>

\* ->allocate_node(index), from the call to the return into activate
SpinAllocate(t) ==
  /\ pc[t] = "alloc_claim"
  /\ AllocatorAsserts(this[t])
  /\ id' = [id EXCEPT ![t] = alloc[this[t]].resident_tail]
  /\ alloc' = [alloc EXCEPT ![this[t]] = AllocateNodeWhole(@, index[t])]
  /\ ret' = [ret EXCEPT ![t] = AllocateNodeResult(alloc[this[t]])]
  /\ pc' = [pc EXCEPT ![t] = "act_store"]
  /\ UNCHANGED <<overrun, regVars, ptrVars, hashVars, dynVars, this, self,
                 arg, index, sweepVars, hostop>>

\* the steps of task t
SpinStep(t) ==
  \/ SpinCall(t)
  \/ ActivateSpin(t)
  \/ ActivateCheck(t)
  \/ SpinAllocate(t)
  \/ ActivateStore(t)
  \/ ActivateUnlock(t)

InitSpin == InitAlloc

NextSpin == \E t \in Tasks : SpinStep(t)

SpecSpin ==
  InitSpin /\ [][NextSpin]_vars /\ \A t \in Tasks : WF_vars(SpinStep(t))

\* C17: with every task of the group scheduled fairly, each activate call
\* on the one pointer instance returns; a step that moves no task on is a
\* repeat of the spin, so the spin is the only place a task waits; and
\* when all calls have returned the lock is 0 again.
ActivationTerminates ==
  /\ \A t \in Tasks : (pc[t] = "act_spin") ~> (pc[t] = "activated")
  /\ [][pc' = pc => \E t \in Tasks : pc[t] = "act_spin"]_vars
  /\ []((\A t \in Tasks : pc[t] = "activated") => lock[SpinInst] = 0)

\* every task of the group has returned from activate, after a run in
\* which more than one of them was past the spin at once, and the lock is
\* free
ActivationTerminatesWitness ==
  /\ \A t \in Tasks : pc[t] = "activated"
  /\ lock[SpinInst] = 0
  /\ alloc[PointerT].resident_tail >= 2
  /\ pdata[SpinInst] # NULL

\* ------------------------------------------------------------------------
\* SpecDynHost: the host thread calls look_up, append and activate on one
\* dynamic container serially (the TLANG_HOST build), starting at n = 0; a
\* kernel may run clear() between two host calls.  Indices are below max_n
\* and append is called while the container has room.
\* ------------------------------------------------------------------------
Larger(a, b) == IF a > b THEN a ELSE b

\* a look_up that sets n to i + 1 whatever n was
dynamic_look_up_n_assigned(n, i) == i + 1

\* n = std::max(n, i + 1)
dynamic_look_up_n(n, i) == Larger(n, i + 1)

\* return &data[i]
dynamic_look_up(i) == i

DynLookUp(i) ==
  /\ dn' = dynamic_look_up_n(dn, i)
  /\ dtouched' = Larger(dtouched, i + 1)
  /\ hostop' = [NoHostOp EXCEPT !.op = "look_up", !.i = i,
                                !.result = dynamic_look_up(i)]
  /\ UNCHANGED <<alloc, overrun, regVars, ptrVars, hashVars, ddata, taskVars,
                 sweepVars>>

\* data[atomic_add(&n, 1)] = t with nothing interleaved
DynAppend(v) ==
  /\ dn < max_n
  /\ ddata' = [ddata EXCEPT ![dn] = v]
  /\ dn' = AppendTail(dn)
  /\ dtouched' = Larger(dtouched, dn + 1)
  /\ hostop' = [NoHostOp EXCEPT !.op = "append", !.i = v, !.result = dn]
  /\ UNCHANGED <<alloc, overrun, regVars, ptrVars, hashVars, taskVars,
                 sweepVars>>

\* activate(i, index): an empty body
DynActivate(i, ix) ==
  /\ hostop' = [NoHostOp EXCEPT !.op = "activate", !.i = i, !.index = ix]
  /\ UNCHANGED <<alloc, overrun, regVars, ptrVars, hashVars, dynVars,
                 taskVars, sweepVars>>

\* clear(): n = 0
DynClear ==
  /\ dn' = 0
  /\ dtouched' = 0
  /\ hostop' = [NoHostOp EXCEPT !.op = "clear"]
  /\ UNCHANGED <<alloc, overrun, regVars, ptrVars, hashVars, ddata, taskVars,
                 sweepVars>>

InitDynHost == InitAlloc

NextDynHost ==
  \/ \E i \in DOMAIN ddata : DynLookUp(i)
  \/ \E v \in ChildValues : DynAppend(v)
  \/ \E i \in DOMAIN ddata, ix \in IndexInputs : DynActivate(i, ix)
  \/ DynClear

SpecDynHost == InitDynHost /\ [][NextDynHost]_vars

\* C18: in serial host execution get_n() is the highest index look_up has
\* touched or append has written, plus one, counted from n = 0 or from the
\* last clear(); look_up(i) returns &data[i], leaves get_n() = max(previous
\* n, i + 1) and writes no element; append(t) stores t at the index that
\* was get_n(), touches no other element and raises get_n() by 1; activate
\* changes nothing; get_n() decreases in no step but clear().
DynamicSizeTracking ==
  [][/\ dynamic_get_n' = dtouched'
     /\ hostop'.op = "look_up" =>
          /\ dynamic_get_n' = Larger(dynamic_get_n, hostop'.i + 1)
          /\ hostop'.result = hostop'.i
          /\ ddata' = ddata
     /\ hostop'.op = "append" =>
          /\ dynamic_get_n' = dynamic_get_n + 1
          /\ hostop'.result = dynamic_get_n
          /\ ddata'[dynamic_get_n] = hostop'.i
          /\ \A k \in DOMAIN ddata : k # dynamic_get_n => ddata'[k] = ddata[k]
     /\ hostop'.op = "activate" =>
          /\ dynamic_get_n' = dynamic_get_n
          /\ ddata' = ddata
     /\ dynamic_get_n' < dynamic_get_n => hostop'.op = "clear"]_vars

\* an append has just stored its value at the index a look_up beyond the
\* appended part had left get_n() at
DynamicSizeTrackingWitness ==
  /\ hostop.op = "append"
  /\ hostop.result = 2
  /\ dynamic_get_n = 3
  /\ ddata[2] = hostop.i
  /\ ddata[1] = RAW
  /\ ddata[0] # RAW

\* ------------------------------------------------------------------------
\* SpecReuse: the host thread activates and looks up two pointer instances
\* of one node type and calls reset_meta and clear on the type's allocator
\* in between; kernels mark resident slots inactive; the pointer instances
\* keep the children they hold.
\* ------------------------------------------------------------------------
ReuseActivate(c, ix) == SweepQuiet /\ HostPointerActivate(c, 0, ix)

ReuseLookUp(c) == SweepQuiet /\ HostPointerLookUp(c, 0)

InitReuse == InitAlloc

NextReuse ==
  \/ \E c \in PtrInsts, ix \in IndexInputs : ReuseActivate(c, ix)
  \/ \E c \in PtrInsts : ReuseLookUp(c)
  \/ \E k \in Slots : Deactivate(k)
  \/ HostResetMeta
  \/ HostClear
  \/ \E b \in Slots : SweepEnter(b)
  \/ \E b \in Slots, w \in Words : SweepClaim(b, w)
  \/ \E b \in Slots, w \in Words : SweepPush(b, w)

SpecReuse == InitReuse /\ [][NextReuse]_vars

\* C19 as stated: two different pointer instances that both hold a child
\* hold different data slots of the pool, whatever reset_meta and clear
\* calls were made between their activations.
DistinctChildren ==
  \A c1, c2 \in PtrInsts :
    (c1 # c2 /\ pointer_look_up(c1, 0) # NULL /\ pointer_look_up(c2, 0) # NULL)
      => pointer_look_up(c1, 0) # pointer_look_up(c2, 0)

\* C20: an allocate_node call returns the slot whose index is resident_tail
\* as it was at the call, raises resident_tail by 1 and changes neither
\* recycle_tail nor any entry of recycle_pool, whatever the recycle list
\* holds; so a slot that clear() moved to the recycle list comes out again
\* only when the resident counter reaches its index.
RecycleUntouched ==
  [][calls' # calls =>
       /\ hostop'.op = "allocate_node"
       /\ hostop'.result = SlotAddr(alloc[PointerT].resident_tail)
       /\ alloc'[PointerT].resident_tail = alloc[PointerT].resident_tail + 1
       /\ alloc'[PointerT].recycle_tail = alloc[PointerT].recycle_tail
       /\ alloc'[PointerT].recycle_pool = alloc[PointerT].recycle_pool]_vars

\* allocate_node has just returned slot 0 while the recycle list holds one
\* record, that of slot 1, and still holds it
RecycleUntouchedWitness ==
  /\ hostop.op = "allocate_node"
  /\ hostop.result = SlotAddr(0)
  /\ alloc[PointerT].resident_tail = 1
  /\ alloc[PointerT].recycle_tail = 1
  /\ alloc[PointerT].recycle_pool[0].ptr = SlotAddr(1)
  /\ alloc[PointerT].recycle_pool[0].active = 0

=============================================================================
